---- MODULE Spec2Model ----
(***************************************************************************)
(* Model of the blog post store of app.py: one JSON file holding the list  *)
(* of posts, and the Flask handlers index, update, add and delete that     *)
(* load the whole file, change the list and write the whole file back.     *)
(*                                                                         *)
(* A text is a sequence of one-character strings.  A post is a record      *)
(* [id, author, title, content].  The file is [exists, text]; its text is  *)
(* the serialised array, one tuple <<id, author, title, content>> per      *)
(* object, in the key order json.dumps writes.                             *)
(***************************************************************************)
EXTENDS Integers, Sequences, FiniteSets, TLC

\* Bound of the model: successful adds in one behaviour.
MaxAdds == 3

\* Bound of the model: rounds of interleaved requests in one behaviour.
MaxRounds == 2

VARIABLES
    file,        \* posts.json: [exists |-> BOOLEAN, text |-> serialised array]
    req,         \* the last request handled: [route, method, post_id, form]
    resp,        \* what the last request returned
    saved,       \* TRUE iff the last request called save_posts
    before,      \* the file as it was when the last request arrived
    created,     \* history: number of posts created so far
    createdAt,   \* history: id -> creation number of the post now holding it
    removedMax,  \* history: the id the last request deleted if it was the maximum id, else 0
    reuse,       \* history: removedMax of the request before the last one
    pc,          \* interleaved requests: position of each worker
    rq,          \* interleaved requests: the request each worker handles
    posts,       \* interleaved requests: each worker's local list `posts`
    seen,        \* interleaved requests: the file text each worker loaded
    out,         \* interleaved requests: what each worker returned
    writes,      \* interleaved requests: the workers that called save_posts, in order
    overlap,     \* interleaved requests: TRUE iff a worker loaded while another had loaded and not finished
    rounds       \* interleaved requests: rounds of requests that are over

seqVars == <<req, resp, saved, before, created, createdAt, removedMax, reuse>>
raceVars == <<pc, rq, posts, seen, out, writes, overlap, rounds>>
vars == <<file, req, resp, saved, before, created, createdAt, removedMax, reuse,
          pc, rq, posts, seen, out, writes, overlap, rounds>>

-----------------------------------------------------------------------------
(* Texts and forms *)

Whitespace == {" ", "\t", "\n"}

RECURSIVE lstrip(_)
lstrip(s) == IF s # <<>> /\ Head(s) \in Whitespace THEN lstrip(Tail(s)) ELSE s

RECURSIVE rstrip(_)
rstrip(s) ==
    IF s # <<>> /\ s[Len(s)] \in Whitespace THEN rstrip(SubSeq(s, 1, Len(s) - 1)) ELSE s

\* A plausible slip: only leading whitespace is removed.
strip_leading_only(s) == lstrip(s)

\* str.strip()
strip(s) == rstrip(lstrip(s))

\* (request.form.get(key) or "").strip(): a missing key and "" both give "".
form_field(form, key) ==
    strip(IF key \in DOMAIN form /\ form[key] # <<>> THEN form[key] ELSE <<>>)

\* `not s` for a str
blank(s) == s = <<>>

\* Submitted values, per field: blank ones, ones that need trimming, plain ones.
AuthorTexts == {<<>>, <<" ", "a", " ", "b", "\t">>, <<"b">>}
TitleTexts == {<<"\t", " ">>, <<"t", " ">>}
ContentTexts == {<<"\n">>, <<"c">>}

\* The forms a request may carry; the last one lacks the content key.
Forms ==
    [author : AuthorTexts, title : TitleTexts, content : ContentTexts]
        \cup {[author |-> <<"b">>, title |-> <<"t", " ">>]}

NoForm == [author |-> <<>>]

\* Ids a request path may name: every id the store can hold and one more.
PostIds == 1 .. (MaxAdds + 1)

-----------------------------------------------------------------------------
(* The file *)

Dump(p) == <<p.id, p.author, p.title, p.content>>
Parse(o) == [id |-> o[1], author |-> o[2], title |-> o[3], content |-> o[4]]

\* json.dumps of a list of posts / json.loads of the file's text
dumps(ps) == [i \in 1 .. Len(ps) |-> Dump(ps[i])]
loads(text) == [i \in 1 .. Len(text) |-> Parse(text[i])]

\* load_posts: creates the file holding "[]" when it is missing, then reads it.
\* Gives the file as load leaves it and the list returned.
load_posts(f) ==
    LET g == IF ~f.exists THEN [exists |-> TRUE, text |-> <<>>] ELSE f
    IN  [file |-> g, posts |-> loads(g.text)]

\* A plausible slip: the new list is written after what the file holds.
save_posts_appending(f, ps) == [exists |-> TRUE, text |-> f.text \o dumps(ps)]

\* save_posts: overwrites the whole file.
save_posts(f, ps) == [exists |-> TRUE, text |-> dumps(ps)]

-----------------------------------------------------------------------------
(* Helpers of the handlers *)

NoIndex == 0

\* find_post_index: the first index whose post has the id, or None (NoIndex).
find_post_index(ps, post_id) ==
    LET hits == {i \in 1 .. Len(ps) : ps[i].id = post_id}
    IN  IF hits = {} THEN NoIndex ELSE CHOOSE i \in hits : \A j \in hits : i <= j

Ids(ps) == {ps[i].id : i \in 1 .. Len(ps)}

\* A plausible slip: the default of max is 1.
max_id_default_one(ps) ==
    IF ps = <<>> THEN 1 ELSE CHOOSE m \in Ids(ps) : \A n \in Ids(ps) : n <= m

\* max((p["id"] for p in posts), default=0)
max_id(ps) ==
    IF ps = <<>> THEN 0 ELSE CHOOSE m \in Ids(ps) : \A n \in Ids(ps) : n <= m

\* A plausible slip: the number of posts instead of the maximum id.
new_id_by_count(ps) == Len(ps) + 1

\* new_id of add
new_id(ps) == max_id(ps) + 1

RECURSIVE without_reversed(_, _)
\* A plausible slip: the kept posts come out in reverse.
without_reversed(ps, post_id) ==
    IF ps = <<>> THEN <<>>
    ELSE IF Head(ps).id # post_id
         THEN without_reversed(Tail(ps), post_id) \o <<Head(ps)>>
         ELSE without_reversed(Tail(ps), post_id)

RECURSIVE without(_, _)
\* [p for p in posts if p["id"] != post_id]
without(ps, post_id) ==
    IF ps = <<>> THEN <<>>
    ELSE IF Head(ps).id # post_id
         THEN <<Head(ps)>> \o without(Tail(ps), post_id)
         ELSE without(Tail(ps), post_id)

-----------------------------------------------------------------------------
(* The handlers, from the loaded list on.  Each gives the response, whether *)
(* save_posts is called, and the list handed to it.                         *)

\* A plausible slip: validation is skipped.
update_body_unvalidated(ps, post_id, method, form) ==
    LET idx == find_post_index(ps, post_id)
    IN  IF idx = NoIndex THEN [resp |-> "404", save |-> FALSE, posts |-> ps]
        ELSE IF method = "POST"
             THEN [resp |-> "redirect", save |-> TRUE,
                   posts |-> [ps EXCEPT ![idx].author = form_field(form, "author"),
                                        ![idx].title = form_field(form, "title"),
                                        ![idx].content = form_field(form, "content")]]
             ELSE [resp |-> "update_form", save |-> FALSE, posts |-> ps]

\* A plausible slip: validation comes before the existence check.
update_body_validate_first(ps, post_id, method, form) ==
    LET idx == find_post_index(ps, post_id)
        author == form_field(form, "author")
        title == form_field(form, "title")
        content == form_field(form, "content")
    IN  IF method = "POST" /\ (blank(author) \/ blank(title) \/ blank(content))
        THEN [resp |-> "update_error", save |-> FALSE, posts |-> ps]
        ELSE IF idx = NoIndex THEN [resp |-> "404", save |-> FALSE, posts |-> ps]
        ELSE IF method = "POST"
             THEN [resp |-> "redirect", save |-> TRUE,
                   posts |-> [ps EXCEPT ![idx].author = author,
                                        ![idx].title = title,
                                        ![idx].content = content]]
             ELSE [resp |-> "update_form", save |-> FALSE, posts |-> ps]

\* update, after posts = load_posts()
update_body(ps, post_id, method, form) ==
    LET idx == find_post_index(ps, post_id)
        author == form_field(form, "author")
        title == form_field(form, "title")
        content == form_field(form, "content")
    IN  IF idx = NoIndex THEN [resp |-> "404", save |-> FALSE, posts |-> ps]
        ELSE IF method = "POST"
             THEN IF blank(author) \/ blank(title) \/ blank(content)
                  THEN [resp |-> "update_error", save |-> FALSE, posts |-> ps]
                  ELSE [resp |-> "redirect", save |-> TRUE,
                        posts |-> [ps EXCEPT ![idx].author = author,
                                             ![idx].title = title,
                                             ![idx].content = content]]
             ELSE [resp |-> "update_form", save |-> FALSE, posts |-> ps]

\* The dict `post` that add builds.
new_post(ps, form) ==
    [id |-> new_id(ps),
     author |-> form_field(form, "author"),
     title |-> form_field(form, "title"),
     content |-> form_field(form, "content")]

\* A plausible slip: the new post is put first.
add_body_prepend(ps, form) ==
    LET post == new_post(ps, form)
    IN  IF blank(post.author) \/ blank(post.title) \/ blank(post.content)
        THEN [resp |-> "add_error", save |-> FALSE, posts |-> ps]
        ELSE [resp |-> "redirect", save |-> TRUE, posts |-> <<post>> \o ps]

\* A plausible slip: the post is stored before it is validated.
add_body_unvalidated(ps, form) ==
    LET post == new_post(ps, form)
    IN  IF blank(post.author) \/ blank(post.title) \/ blank(post.content)
        THEN [resp |-> "add_error", save |-> TRUE, posts |-> Append(ps, post)]
        ELSE [resp |-> "redirect", save |-> TRUE, posts |-> Append(ps, post)]

\* add on POST, after posts = load_posts()
add_body(ps, form) ==
    LET post == new_post(ps, form)
    IN  IF blank(post.author) \/ blank(post.title) \/ blank(post.content)
        THEN [resp |-> "add_error", save |-> FALSE, posts |-> ps]
        ELSE [resp |-> "redirect", save |-> TRUE, posts |-> Append(ps, post)]

\* A plausible slip: the list is written back whether or not it changed.
delete_body_always_saves(ps, post_id) ==
    [resp |-> "redirect", save |-> TRUE, posts |-> without(ps, post_id)]

\* delete, after posts = load_posts()
delete_body(ps, post_id) ==
    LET new_posts == without(ps, post_id)
    IN  [resp |-> "redirect", save |-> Len(new_posts) # Len(ps), posts |-> new_posts]

\* The body a request runs once the list is loaded.
body(r, ps) ==
    IF r.route = "update" THEN update_body(ps, r.post_id, r.method, r.form)
    ELSE IF r.route = "add" THEN add_body(ps, r.form)
    ELSE delete_body(ps, r.post_id)

\* A whole handler that loads first: load_posts, the body, save_posts if asked.
run(f, r) ==
    LET ld == load_posts(f)
        b == body(r, ld.posts)
    IN  [file |-> IF b.save THEN save_posts(ld.file, b.posts) ELSE ld.file,
         resp |-> b.resp, saved |-> b.save]

\* add: a GET renders the empty form and does not touch the file.
add(f, method, form) ==
    IF method = "POST"
    THEN run(f, [route |-> "add", method |-> method, post_id |-> 0, form |-> form])
    ELSE [file |-> f, resp |-> "add_form", saved |-> FALSE]

\* update
update(f, post_id, method, form) ==
    run(f, [route |-> "update", method |-> method, post_id |-> post_id, form |-> form])

\* delete
delete(f, post_id) ==
    run(f, [route |-> "delete", method |-> "GET", post_id |-> post_id, form |-> NoForm])

\* index: renders load_posts()
index(f) == [file |-> load_posts(f).file, resp |-> "index", saved |-> FALSE]

-----------------------------------------------------------------------------
(* Requests handled one after the other *)

Stored == loads(file.text)
StoredBefore == loads(before.text)

\* One request, start to end, with the history it leaves.
Handle(r, res) ==
    LET was == loads(file.text)
        made == r.route = "add" /\ res.saved
    IN  /\ made => created < MaxAdds
        /\ file' = res.file
        /\ req' = r
        /\ resp' = res.resp
        /\ saved' = res.saved
        /\ before' = file
        /\ created' = IF made THEN created + 1 ELSE created
        /\ createdAt' = IF made
                        THEN [createdAt EXCEPT ![new_post(was, r.form).id] = created + 1]
                        ELSE createdAt
        /\ removedMax' = IF /\ r.route = "delete"
                            /\ r.post_id \in Ids(was)
                            /\ \A n \in Ids(was) : n <= r.post_id
                         THEN r.post_id ELSE 0
        /\ reuse' = removedMax
        /\ UNCHANGED raceVars

Index ==
    Handle([route |-> "index", method |-> "GET", post_id |-> 0, form |-> NoForm],
           index(file))

Update ==
    \E post_id \in PostIds :
        \/ Handle([route |-> "update", method |-> "GET", post_id |-> post_id, form |-> NoForm],
                  update(file, post_id, "GET", NoForm))
        \/ \E form \in Forms :
              Handle([route |-> "update", method |-> "POST", post_id |-> post_id, form |-> form],
                     update(file, post_id, "POST", form))

Add ==
    \/ Handle([route |-> "add", method |-> "GET", post_id |-> 0, form |-> NoForm],
              add(file, "GET", NoForm))
    \/ \E form \in Forms :
          Handle([route |-> "add", method |-> "POST", post_id |-> 0, form |-> form],
                 add(file, "POST", form))

Delete ==
    \E post_id \in PostIds :
        Handle([route |-> "delete", method |-> "GET", post_id |-> post_id, form |-> NoForm],
               delete(file, post_id))

Workers == {1, 2}

NoRequest == [route |-> "none", method |-> "GET", post_id |-> 0, form |-> NoForm]

\* posts.json is missing or holds "[]"; nothing has been requested yet.
Init ==
    /\ file \in {[exists |-> FALSE, text |-> <<>>], [exists |-> TRUE, text |-> <<>>]}
    /\ req = NoRequest
    /\ resp = "none"
    /\ saved = FALSE
    /\ before = file
    /\ created = 0
    /\ createdAt = [i \in PostIds |-> 0]
    /\ removedMax = 0
    /\ reuse = 0
    /\ pc = [w \in Workers |-> "idle"]
    /\ rq = [w \in Workers |-> NoRequest]
    /\ posts = [w \in Workers |-> <<>>]
    /\ seen = [w \in Workers |-> <<>>]
    /\ out = [w \in Workers |-> "none"]
    /\ writes = <<>>
    /\ overlap = FALSE
    /\ rounds = 0

Next == Index \/ Update \/ Add \/ Delete

Spec == Init /\ [][Next]_vars

-----------------------------------------------------------------------------
(* Requests whose load and save steps interleave: each worker handles one   *)
(* request per round, first load_posts, later the rest of the handler.      *)

RaceIds == 1 .. 2

RaceForms ==
    {[author |-> <<" ", "a", " ", "b", "\t">>, title |-> <<"t", " ">>, content |-> <<"c">>],
     [author |-> <<"b">>, title |-> <<"t", " ">>, content |-> <<"c">>],
     [author |-> <<>>, title |-> <<"t", " ">>, content |-> <<"c">>]}

\* The requests that load the file and may save it.
RaceRequests ==
    {[route |-> "add", method |-> "POST", post_id |-> 0, form |-> f] : f \in RaceForms}
        \cup {[route |-> "update", method |-> "POST", post_id |-> i, form |-> f] :
                 i \in RaceIds, f \in RaceForms}
        \cup {[route |-> "delete", method |-> "GET", post_id |-> i, form |-> NoForm] :
                 i \in RaceIds}

\* posts = load_posts() of worker w
RaceLoad(w) ==
    /\ pc[w] = "idle"
    /\ rounds < MaxRounds
    /\ \E r \in RaceRequests :
          LET ld == load_posts(file)
          IN  /\ file' = ld.file
              /\ rq' = [rq EXCEPT ![w] = r]
              /\ posts' = [posts EXCEPT ![w] = ld.posts]
              /\ seen' = [seen EXCEPT ![w] = ld.file.text]
    /\ pc' = [pc EXCEPT ![w] = "loaded"]
    /\ overlap' = (overlap \/ \E v \in Workers \ {w} : pc[v] = "loaded")
    /\ UNCHANGED <<out, writes, rounds>>
    /\ UNCHANGED seqVars

\* The rest of the handler of worker w, on the list it loaded.
RaceFinish(w) ==
    /\ pc[w] = "loaded"
    /\ LET b == body(rq[w], posts[w])
       IN  /\ file' = IF b.save THEN save_posts(file, b.posts) ELSE file
           /\ posts' = [posts EXCEPT ![w] = b.posts]
           /\ out' = [out EXCEPT ![w] = b.resp]
           /\ writes' = IF b.save THEN Append(writes, w) ELSE writes
    /\ pc' = [pc EXCEPT ![w] = "done"]
    /\ UNCHANGED <<rq, seen, overlap, rounds>>
    /\ UNCHANGED seqVars

\* The round is over: no request is in flight.
RaceReset ==
    /\ \A w \in Workers : pc[w] # "loaded"
    /\ \E w \in Workers : pc[w] = "done"
    /\ pc' = [w \in Workers |-> "idle"]
    /\ rq' = [w \in Workers |-> NoRequest]
    /\ posts' = [w \in Workers |-> <<>>]
    /\ seen' = [w \in Workers |-> <<>>]
    /\ out' = [w \in Workers |-> "none"]
    /\ writes' = <<>>
    /\ overlap' = FALSE
    /\ rounds' = rounds + 1
    /\ UNCHANGED file
    /\ UNCHANGED seqVars

NextRace ==
    \/ \E w \in Workers : RaceLoad(w)
    \/ \E w \in Workers : RaceFinish(w)
    \/ RaceReset

SpecRace == Init /\ [][NextRace]_vars

-----------------------------------------------------------------------------
(* What the claims speak of, stated without the handlers' own operators *)

\* The value submitted for a key; a missing key counts as "".
Submitted(form, key) == IF key \in DOMAIN form THEN form[key] ELSE <<>>

AllWhitespace(s) == \A i \in 1 .. Len(s) : s[i] \in Whitespace

\* t is s without its leading and trailing whitespace.
IsTrimOf(t, s) ==
    \E a \in 0 .. Len(s) :
        /\ a + Len(t) <= Len(s)
        /\ t = SubSeq(s, a + 1, a + Len(t))
        /\ AllWhitespace(SubSeq(s, 1, a))
        /\ AllWhitespace(SubSeq(s, a + Len(t) + 1, Len(s)))
        /\ t # <<>> => (t[1] \notin Whitespace /\ t[Len(t)] \notin Whitespace)

Keys == {"author", "title", "content"}

\* Some field of the form is empty or whitespace-only.
SomeBlank(form) == \E k \in Keys : AllWhitespace(Submitted(form, k))

\* Post p carries the trimmed values of the form.
CarriesForm(p, form) ==
    /\ IsTrimOf(p.author, Submitted(form, "author"))
    /\ IsTrimOf(p.title, Submitted(form, "title"))
    /\ IsTrimOf(p.content, Submitted(form, "content"))

IdList(ps) == [i \in 1 .. Len(ps) |-> ps[i].id]

RECURSIVE Keep(_, _)
\* The ids of seq that are in the set, in the order of seq.
Keep(seq, set) ==
    IF seq = <<>> THEN <<>>
    ELSE IF Head(seq) \in set THEN <<Head(seq)>> \o Keep(Tail(seq), set)
         ELSE Keep(Tail(seq), set)

AddPosted == req.route = "add" /\ req.method = "POST"
UpdatePosted == req.route = "update" /\ req.method = "POST"

\* C1: with requests handled one after the other from a missing or empty
\* store, no two stored posts have the same id.
C1_UniqueIds ==
    \A i, j \in 1 .. Len(Stored) : i # j => Stored[i].id # Stored[j].id

\* C1 witness: an add after a delete of the maximum id, into a store that
\* kept another post.
C1_Witness ==
    /\ AddPosted /\ saved /\ reuse # 0
    /\ Len(Stored) >= 2

\* C2: a POST to add whose three trimmed fields are non-empty appends a post
\* whose id is 1 + the maximum stored id (1 for an empty store) and whose
\* fields are the trimmed values; every earlier post stays as it was.
C2_AddAppendsMaxPlusOne ==
    (AddPosted /\ ~SomeBlank(req.form)) =>
        /\ resp = "redirect" /\ saved /\ file.exists
        /\ Len(Stored) = Len(StoredBefore) + 1
        /\ SubSeq(Stored, 1, Len(StoredBefore)) = StoredBefore
        /\ LET p == Stored[Len(Stored)]
           IN  /\ CarriesForm(p, req.form)
               /\ \A n \in Ids(StoredBefore) : n < p.id
               /\ p.id - 1 \in Ids(StoredBefore) \cup {0}
               /\ StoredBefore = <<>> => p.id = 1

\* C2 witness: a successful add into a store whose ids have a gap below the
\* maximum, so that max + 1 differs from the smallest free id and from the
\* number of posts + 1.
C2_Witness ==
    /\ AddPosted /\ ~SomeBlank(req.form) /\ resp = "redirect"
    /\ StoredBefore # <<>>
    /\ \E k \in 1 .. Stored[Len(Stored)].id - 1 : k \notin Ids(StoredBefore)
    /\ Len(StoredBefore) + 1 < Stored[Len(Stored)].id

\* C3 as claimed: when a delete of the post holding the maximum id is
\* followed at once by a valid add, the new post gets the id of the deleted
\* post.
C3_MaxIdIsReused ==
    (reuse # 0 /\ AddPosted /\ ~SomeBlank(req.form)) =>
        /\ resp = "redirect"
        /\ Stored[Len(Stored)].id = reuse

\* C3 as amended: when a delete of the post holding the maximum id m is
\* followed at once by a valid add, the new post gets 1 + the largest id
\* that remained (1 when none remained); that is at most m, and it is m
\* exactly when m - 1 was the largest id that remained or m = 1.
C3_MaxIdNotRemembered ==
    (reuse # 0 /\ AddPosted /\ ~SomeBlank(req.form)) =>
        /\ resp = "redirect"
        /\ reuse \notin Ids(StoredBefore)
        /\ LET n == Stored[Len(Stored)].id
           IN  /\ n <= reuse
               /\ n - 1 \in Ids(StoredBefore) \cup {0}
               /\ \A k \in Ids(StoredBefore) : k < n
               /\ n = reuse <=> (reuse - 1 \in Ids(StoredBefore) \cup {0})

\* C3 witness: the id of a deleted maximum is given out again while an
\* older post is still stored.
C3_Witness ==
    /\ reuse # 0 /\ AddPosted /\ resp = "redirect"
    /\ Len(Stored) >= 2
    /\ Stored[Len(Stored)].id = reuse

\* C3 witness of the case the amendment adds: the new id is below the deleted one.
C3_WitnessLowerId ==
    /\ reuse # 0 /\ AddPosted /\ resp = "redirect"
    /\ Stored[Len(Stored)].id < reuse

\* C4: an update POST for a stored id with a blank field signals the
\* validation error, does not save and leaves the file as it was.
C4_UpdateBlankLeavesStore ==
    (UpdatePosted /\ req.post_id \in Ids(StoredBefore) /\ SomeBlank(req.form)) =>
        /\ resp = "update_error"
        /\ ~saved
        /\ file = before

\* C4 witness: a rejected update of one post of a store holding two.
C4_Witness ==
    /\ UpdatePosted /\ resp = "update_error"
    /\ req.post_id \in Ids(StoredBefore)
    /\ Len(Stored) >= 2

\* C5 as claimed: an add with a blank field signals the validation error and
\* leaves the file, missing or present, in the state it was in.
C5_AddBlankLeavesFileState ==
    (AddPosted /\ SomeBlank(req.form)) =>
        /\ resp = "add_error"
        /\ file = before

\* C5 as amended: an add with a blank field signals the validation error,
\* does not save and leaves the stored list as it was; a file that was there
\* keeps its contents, a file that was missing now exists and holds the
\* empty array.
C5_AddBlankLeavesList ==
    (AddPosted /\ SomeBlank(req.form)) =>
        /\ resp = "add_error"
        /\ ~saved
        /\ file.exists
        /\ file.text = before.text
        /\ before.exists => file = before
        /\ ~before.exists => file.text = <<>>

\* C5 witness: a rejected add that found the file missing and left it present.
C5_Witness ==
    /\ AddPosted /\ SomeBlank(req.form) /\ resp = "add_error"
    /\ ~before.exists /\ file.exists

\* C6 as claimed: a delete of an id no stored post has gives no error, does
\* not save and leaves the file as it was, whatever state it was in.
C6_DeleteMissingLeavesFile ==
    (req.route = "delete" /\ req.post_id \notin Ids(StoredBefore)) =>
        /\ resp = "redirect"
        /\ ~saved
        /\ file = before

\* C6 as amended: a delete of an id no stored post has gives no error and
\* does not save; a file that was there is left as it was, a file that was
\* missing now exists and holds the empty array.  After any delete the file
\* exists and holds no post with the id, so a second delete of the same id
\* is such a delete on a file that is there.
C6_DeleteMissingIsNoOp ==
    /\ (req.route = "delete" /\ req.post_id \notin Ids(StoredBefore)) =>
          /\ resp = "redirect"
          /\ ~saved
          /\ file.exists
          /\ file.text = before.text
          /\ before.exists => file = before
    /\ req.route = "delete" => (file.exists /\ req.post_id \notin Ids(Stored))

\* C6 witness: a delete that found nothing to remove in a store holding posts.
C6_Witness ==
    /\ req.route = "delete" /\ req.post_id \notin Ids(StoredBefore)
    /\ Stored # <<>> /\ file = before

\* C6 witness of the case the amendment adds: the file was missing.
C6_WitnessMissingFile ==
    /\ req.route = "delete" /\ ~before.exists /\ file.exists

\* C7: the stored list is in creation order, and a delete or an update keeps
\* the posts that remain in the order they had.
C7_CreationOrder ==
    /\ \A i, j \in 1 .. Len(Stored) :
          i < j => createdAt[Stored[i].id] < createdAt[Stored[j].id]
    /\ \A i \in 1 .. Len(Stored) : createdAt[Stored[i].id] \in 1 .. created
    /\ req.route \in {"delete", "update"} =>
          IdList(Stored) = Keep(IdList(StoredBefore), Ids(Stored))

\* C7 witness: a delete took a post from between two others.
C7_Witness ==
    /\ req.route = "delete" /\ saved
    /\ Len(Stored) = 2 /\ Len(StoredBefore) = 3
    /\ StoredBefore[2].id = req.post_id

\* C8: a successful update POST puts the trimmed values in the post with the
\* id, where it was, and leaves its id, every other post, the length of the
\* list and the set of ids as they were.
C8_UpdateInPlace ==
    (UpdatePosted /\ req.post_id \in Ids(StoredBefore) /\ ~SomeBlank(req.form)) =>
        /\ resp = "redirect" /\ saved
        /\ Len(Stored) = Len(StoredBefore)
        /\ Ids(Stored) = Ids(StoredBefore)
        /\ \A i \in 1 .. Len(Stored) :
              IF StoredBefore[i].id = req.post_id
              THEN Stored[i].id = req.post_id /\ CarriesForm(Stored[i], req.form)
              ELSE Stored[i] = StoredBefore[i]

\* C8 witness: an update that changed the first of two posts, from a form
\* whose author needed trimming.
C8_Witness ==
    /\ UpdatePosted /\ resp = "redirect"
    /\ Len(Stored) >= 2
    /\ Stored[1].id = req.post_id
    /\ Stored[1] # StoredBefore[1]
    /\ Stored[1].author # req.form.author

\* C9: an update, GET or POST, for an id no stored post has gives not-found
\* whatever the form holds, never the validation error; it does not save and
\* the store gets no post with that id.
C9_UpdateMissingNotFound ==
    (req.route = "update" /\ req.post_id \notin Ids(StoredBefore)) =>
        /\ resp = "404"
        /\ ~saved
        /\ Stored = StoredBefore
        /\ req.post_id \notin Ids(Stored)

\* C9 witness: an update POST with a blank field for an id that is not stored.
C9_Witness ==
    /\ UpdatePosted /\ SomeBlank(req.form)
    /\ req.post_id \notin Ids(StoredBefore)
    /\ resp = "404" /\ Stored # <<>>

RaceDone == \A w \in Workers : pc[w] = "done"

BothAdded ==
    \A w \in Workers : rq[w].route = "add" /\ out[w] = "redirect"

\* C10: when both requests load before either saves, the file ends as the
\* list of the request that saved last, computed from what that request
\* loaded: of the request that saved first only what the later list happens
\* to hold is left.  Two such adds get the same id and leave one new post.
C10_LastWriterWins ==
    (RaceDone /\ overlap) =>
        /\ seen[1] = seen[2]
        /\ writes = <<>> => file.text = seen[1]
        /\ writes # <<>> => file.text = dumps(posts[writes[Len(writes)]])
        /\ BothAdded =>
              /\ Len(writes) = 2
              /\ Len(Stored) = Len(seen[1]) + 1
              /\ posts[1][Len(posts[1])].id = posts[2][Len(posts[2])].id
              /\ Stored[Len(Stored)] = posts[writes[2]][Len(posts[writes[2]])]

\* C10 witness: two interleaved adds both answered with the redirect and got
\* the same id; the post of the one that saved first is not in the store.
C10_Witness ==
    /\ RaceDone /\ overlap /\ BothAdded /\ Len(writes) = 2
    /\ posts[1][Len(posts[1])].id = posts[2][Len(posts[2])].id
    /\ \A i \in 1 .. Len(Stored) : Stored[i] # posts[writes[1]][Len(posts[writes[1]])]

\* C10, the lost edit: an update answered with the redirect, an add saved
\* after it, and the post is stored as it was before the update.
C10_WitnessLostEdit ==
    /\ RaceDone /\ overlap /\ Len(writes) = 2
    /\ rq[writes[1]].route = "update" /\ out[writes[1]] = "redirect"
    /\ rq[writes[2]].route = "add" /\ out[writes[2]] = "redirect"
    /\ posts[writes[1]] # loads(seen[1])
    /\ SubSeq(Stored, 1, Len(seen[1])) = loads(seen[1])

====
